---------------------------- MODULE Spec2Model ----------------------------
(***************************************************************************)
(* A model of image_organizer.py: the organize pass (organize_images and   *)
(* the cleanup sweep it ends with, driven by main over its source folder   *)
(* arguments), the duplicate check (find_duplicates) and the capture-date  *)
(* resolver (get_date_from_exif, get_date_from_file).                      *)
(*                                                                         *)
(* A path is the tuple of its components (pathlib's Path.parts), a file    *)
(* name a string.  The file system is a function from the paths of its     *)
(* files to [content, mtime]; a content is an abstract byte string, and    *)
(* the EXIF fields of a file are a function of its content.                *)
(***************************************************************************)
EXTENDS Integers, Sequences, FiniteSets, TLC

(***************************************************************************)
(* Bounds of the model.                                                    *)
(***************************************************************************)
\* the largest number of files the walked source folder holds
MaxFiles == 3

\* the largest number of operations the environment fails in one run (a file
\* that cannot be read, a copy or an unlink that raises)
MaxFaults == 1

\* the largest number of files the folder scanned by find_duplicates holds
MaxScan == 3

\* the most files the source folder holds when the destination may be
\* anywhere
MaxSources == 2

(***************************************************************************)
(* Strings: pathlib's name arithmetic and Python's formatting.             *)
(***************************************************************************)
None == "None"

MaxOf(S) == CHOOSE m \in S : \A n \in S : n <= m

\* str.startswith
StartsWith(s, prefix) ==
    /\ Len(s) >= Len(prefix)
    /\ SubSeq(s, 1, Len(prefix)) = prefix

\* str.rfind('.'), counted from 1; 0 when there is no dot
RFindDot(s) ==
    LET dots == {p \in 1..Len(s) : SubSeq(s, p, p) = "."}
    IN  IF dots = {} THEN 0 ELSE MaxOf(dots)

\* Path.suffix: the last dot and what follows it, unless the dot is the
\* first or the last character of the name
PathSuffix(name) ==
    LET p == RFindDot(name)
    IN  IF p > 1 /\ p < Len(name) THEN SubSeq(name, p, Len(name)) ELSE ""

\* Path.stem: the name without its suffix
PathStem(name) ==
    LET p == RFindDot(name)
    IN  IF p > 1 /\ p < Len(name) THEN SubSeq(name, 1, p - 1) ELSE name

UpperCase == <<"A", "B", "C", "D", "E", "F", "G", "H", "I", "J", "K", "L", "M",
               "N", "O", "P", "Q", "R", "S", "T", "U", "V", "W", "X", "Y", "Z">>

LowerCase == <<"a", "b", "c", "d", "e", "f", "g", "h", "i", "j", "k", "l", "m",
               "n", "o", "p", "q", "r", "s", "t", "u", "v", "w", "x", "y", "z">>

LowerChar(c) ==
    IF \E k \in 1..26 : UpperCase[k] = c
    THEN LowerCase[CHOOSE k \in 1..26 : UpperCase[k] = c]
    ELSE c

\* str.lower
RECURSIVE Lower(_)
Lower(s) ==
    IF Len(s) = 0 THEN ""
    ELSE LowerChar(SubSeq(s, 1, 1)) \o Lower(SubSeq(s, 2, Len(s)))

\* the format specification :02d
Pad2(n) == IF n < 10 THEN "0" \o ToString(n) ELSE ToString(n)

\* Path.name, Path.parent and Path.parent.name
NameOf(path) == path[Len(path)]

ParentOf(path) == SubSeq(path, 1, Len(path) - 1)

ParentName(path) == path[Len(path) - 1]

\* the directories mkdir(parents=True) leaves in place for directory d
WithParents(d) == {SubSeq(d, 1, n) : n \in 1..Len(d)}

IsUnder(path, root) ==
    /\ Len(path) > Len(root)
    /\ SubSeq(path, 1, Len(root)) = root

(***************************************************************************)
(* is_image_file                                                           *)
(***************************************************************************)
image_extensions ==
    {".jpg", ".jpeg", ".png", ".gif", ".bmp", ".tiff", ".webp", ".arw", ".raw"}

is_image_file(path) ==
    IF StartsWith(NameOf(path), ".") THEN FALSE
    ELSE Lower(PathSuffix(NameOf(path))) \in image_extensions

(***************************************************************************)
(* The capture date: get_date_from_exif, get_date_from_file.               *)
(***************************************************************************)
Digits == <<"0", "1", "2", "3", "4", "5", "6", "7", "8", "9">>

IsDigit(c) == \E k \in 1..10 : Digits[k] = c

DigitVal(c) == (CHOOSE k \in 1..10 : Digits[k] = c) - 1

IsNumber(s) == Len(s) > 0 /\ \A p \in 1..Len(s) : IsDigit(SubSeq(s, p, p))

RECURSIVE ParseInt(_)
ParseInt(s) ==
    IF Len(s) = 0 THEN 0
    ELSE 10 * ParseInt(SubSeq(s, 1, Len(s) - 1)) + DigitVal(SubSeq(s, Len(s), Len(s)))

\* "no date": what get_date_from_exif returns as None, and a modification
\* time that os.path.getmtime cannot read (no datetime has the year 0)
NoDate == [year |-> 0, month |-> 0]

\* the days of a month of the proleptic Gregorian calendar
DaysIn(year, month) ==
    IF month = 2
    THEN IF (year % 4 = 0 /\ year % 100 # 0) \/ year % 400 = 0 THEN 29 ELSE 28
    ELSE IF month \in {4, 6, 9, 11} THEN 30 ELSE 31

\* datetime.strptime(s, '%Y:%m:%d %H:%M:%S') on a string of zero-padded
\* numbers or one that does not have the shape at all: the date parsed (its
\* year and month: all the program uses), NoDate where strptime raises
\* ValueError
strptime(s) ==
    IF /\ Len(s) = 19
       /\ SubSeq(s, 5, 5) = ":" /\ SubSeq(s, 8, 8) = ":" /\ SubSeq(s, 11, 11) = " "
       /\ SubSeq(s, 14, 14) = ":" /\ SubSeq(s, 17, 17) = ":"
       /\ IsNumber(SubSeq(s, 1, 4)) /\ IsNumber(SubSeq(s, 6, 7))
       /\ IsNumber(SubSeq(s, 9, 10)) /\ IsNumber(SubSeq(s, 12, 13))
       /\ IsNumber(SubSeq(s, 15, 16)) /\ IsNumber(SubSeq(s, 18, 19))
       /\ ParseInt(SubSeq(s, 1, 4)) >= 1
       /\ ParseInt(SubSeq(s, 6, 7)) \in 1..12
       /\ ParseInt(SubSeq(s, 9, 10)) \in
              1..DaysIn(ParseInt(SubSeq(s, 1, 4)), ParseInt(SubSeq(s, 6, 7)))
       /\ ParseInt(SubSeq(s, 12, 13)) \in 0..23
       /\ ParseInt(SubSeq(s, 15, 16)) \in 0..59
       /\ ParseInt(SubSeq(s, 18, 19)) \in 0..59
    THEN [year |-> ParseInt(SubSeq(s, 1, 4)), month |-> ParseInt(SubSeq(s, 6, 7))]
    ELSE NoDate

\* the fields in the order original, digitized, generic
date_fields_digitized_second ==
    <<"EXIF DateTimeOriginal", "EXIF DateTimeDigitized", "Image DateTime">>

\* the order in which get_date_from_exif tries the fields
date_fields == <<"EXIF DateTimeOriginal", "Image DateTime", "EXIF DateTimeDigitized">>

\* the loop of get_date_from_exif from field number n on: the first field
\* that is present and parses, NoDate (None) when there is none
RECURSIVE ExifDateFrom(_, _, _)
ExifDateFrom(fields, exif_data, n) ==
    IF n > Len(fields) THEN NoDate
    ELSE IF fields[n] \in DOMAIN exif_data /\ strptime(exif_data[fields[n]]) # NoDate
         THEN strptime(exif_data[fields[n]])
         ELSE ExifDateFrom(fields, exif_data, n + 1)

get_date_from_exif(exif_data) == ExifDateFrom(date_fields, exif_data, 1)

\* datetime.now(), the wall clock of the run
Now == [year |-> 2026, month |-> 11]

\* get_date_from_file: the modification time, datetime.now() when getmtime
\* raises (mtime = NoDate)
get_date_from_file(mtime) == IF mtime # NoDate THEN mtime ELSE Now

\* line 312: get_date_from_exif(exif_data) or get_date_from_file(file_path)
resolve_date(exif_data, mtime) ==
    IF get_date_from_exif(exif_data) # NoDate
    THEN get_date_from_exif(exif_data)
    ELSE get_date_from_file(mtime)

(***************************************************************************)
(* The world the program runs in.                                          *)
(***************************************************************************)
\* the source folder main is given (twice: the second pass over it is a
\* re-run with nothing changed in between) and the destination folder
source_path == <<"photos">>

SourceArgs == <<source_path, source_path>>

\* organize_images' destination folder: where main's --destination points
VARIABLE destination_path

\* the destination folder of the runs that keep it apart from the source
default_destination == <<"out">>

duplicates_path == destination_path \o <<"duplicates">>

\* the tag prefixes of a run: none (argparse leaves None, an empty string is
\* as falsy) or "T"
NoTag == ""

Tags == {NoTag, "T"}

\* the paths the source folder may hold: two images of one name, one in the
\* folder and one in a subdirectory that has the name of the folder (so that
\* Path.parent.name is the same for both), an image with an upper-case
\* extension and a text file
SourcePaths ==
    { source_path \o <<"a.jpg">>, source_path \o <<"b.JPG">>,
      source_path \o <<"photos", "a.jpg">>, source_path \o <<"notes.txt">> }

\* the contents a file may have and the EXIF fields exifread finds in each:
\* the tags are part of the bytes, so files of one content have the same
Contents == {"X", "Y"}

ExifOf(content) ==
    IF content = "X"
    THEN [f \in {"EXIF DateTimeOriginal", "Image DateTime"} |->
             IF f = "EXIF DateTimeOriginal" THEN "0000:00:00 00:00:00"
             ELSE "2022:01:15 10:00:00"]
    ELSE [f \in {} |-> ""]

Jan == [year |-> 2022, month |-> 1]

Feb == [year |-> 2022, month |-> 2]

\* what a source file may be: content X is dated by its EXIF data (January),
\* content Y by its modification time
FileKinds ==
    { [content |-> "X", mtime |-> Feb],
      [content |-> "Y", mtime |-> Jan],
      [content |-> "Y", mtime |-> Feb] }

PlainKind == [content |-> "X", mtime |-> Feb]

Range(seq) == {seq[n] : n \in 1..Len(seq)}

\* os.walk(source_path): the files of the folder itself in any order, then
\* those of its subdirectory
Listings ==
    { l \in UNION {[1..n -> SourcePaths] : n \in 0..MaxFiles} :
        /\ \A m, n \in 1..Len(l) : m # n => l[m] # l[n]
        /\ \A m, n \in 1..Len(l) : (m < n) => Len(l[m]) <= Len(l[n]) }

\* what the destination may hold before the run: nothing, resource fork
\* files, a file organized earlier, a file tagged earlier
ForkA == destination_path \o <<"2022", "01", "._a.jpg">>

ForkB == destination_path \o <<"._b.JPG">>

DestSeeds ==
    { [p \in {} |-> PlainKind],
      [p \in {ForkA} |-> PlainKind],
      [p \in {ForkA, ForkB} |-> PlainKind],
      [p \in {destination_path \o <<"2022", "01", "a.jpg">>} |->
          [content |-> "Y", mtime |-> Jan]],
      [p \in {destination_path \o <<"2022", "01", "T_a.jpg">>} |->
          [content |-> "Y", mtime |-> Jan]] }

VARIABLES
    fs,                   \* the files: path -> [content, mtime]
    dirs,                 \* the directories that exist
    files,                \* os.walk's listing of the source folder
    tag_prefix,           \* the --tag option
    k,                    \* main: the number of the source argument at hand
    pc,                   \* where the program is
    i,                    \* the number of the file at hand in the listing
    file_hashes,          \* hash -> path, the tracker of a pass
    processed_count, duplicate_count, skipped_count, already_exists_count,
    removed_count,
    summaries,            \* the statistics each finished pass printed
    lastOp,               \* what the program did with the last file it handled
    faults,               \* the number of operations the environment has failed
    dest_at_start,        \* the files under the destination as each pass began
    move_to_duplicates,   \* find_duplicates: its argument
    duplicates,           \* find_duplicates: hash -> paths, in insertion order
    moved_count,          \* find_duplicates: its second counter
    unreadable,           \* find_duplicates: the listed files get_file_hash failed on
    fs_at_start,          \* find_duplicates: the files as the scan began
    exif_tags,            \* the date of one file: its EXIF fields
    mod_time,             \* the date of one file: its modification time
    date_obj,             \* the date of one file: the date found
    pending               \* os.walk: the directories it has yet to list

organizeVars == << tag_prefix, k, processed_count, skipped_count,
                   already_exists_count, removed_count, summaries, dest_at_start >>

duplicateVars == << move_to_duplicates, duplicates, moved_count, unreadable,
                    fs_at_start >>

dateVars == << exif_tags, mod_time, date_obj >>

walkVars == << destination_path, pending >>

vars == << fs, dirs, files, pc, i, file_hashes, duplicate_count, lastOp, faults,
           organizeVars, duplicateVars, dateVars, walkVars >>

NoOp == [pass |-> 0, idx |-> 0, kind |-> "none", target |-> << >>,
         existed |-> FALSE]

DestFiles(fsys) == {p \in DOMAIN fsys : IsUnder(p, destination_path)}

Init ==
    /\ destination_path = default_destination
    /\ pending = << >>
    /\ \E listing \in Listings, seed \in DestSeeds :
         \E kinds \in [Range(listing) -> FileKinds] :
            /\ \A p \in Range(listing) : ~is_image_file(p) => kinds[p] = PlainKind
            /\ files = listing
            /\ fs = kinds @@ seed
            /\ dirs = UNION {WithParents(ParentOf(p)) :
                                p \in Range(listing) \cup DOMAIN seed}
                        \cup {source_path}
    /\ tag_prefix \in Tags
    /\ k = 1
    /\ pc = "start"
    /\ i = 0
    /\ file_hashes = [h \in {} |-> << >>]
    /\ processed_count = 0
    /\ duplicate_count = 0
    /\ skipped_count = 0
    /\ already_exists_count = 0
    /\ removed_count = 0
    /\ summaries = << >>
    /\ lastOp = NoOp
    /\ faults = 0
    /\ dest_at_start = << >>
    /\ move_to_duplicates = FALSE
    /\ duplicates = << >>
    /\ moved_count = 0
    /\ unreadable = {}
    /\ fs_at_start = fs
    /\ exif_tags = [f \in {} |-> ""]
    /\ mod_time = NoDate
    /\ date_obj = NoDate

(***************************************************************************)
(* File operations.                                                        *)
(***************************************************************************)
\* get_file_hash of a readable file: MD5 of its bytes, taken to be free of
\* collisions; it returns None when the file cannot be read
get_file_hash(content) == "md5:" \o content

\* Path.exists
exists(fsys, ds, path) == path \in DOMAIN fsys \/ path \in ds

\* a move in the place of the copy: the target holds the file, the source is
\* gone
copy2_moving(fsys, src, dst) ==
    [p \in (DOMAIN fsys \cup {dst}) \ ({src} \ {dst}) |->
        IF p = dst THEN fsys[src] ELSE fsys[p]]

\* shutil.copy2: the target holds the bytes and the modification time of the
\* source, whatever it held before
copy2(fsys, src, dst) ==
    [p \in DOMAIN fsys \cup {dst} |-> IF p = dst THEN fsys[src] ELSE fsys[p]]

\* Path.unlink, and the source side of shutil.move
unlink(fsys, path) == [p \in DOMAIN fsys \ {path} |-> fsys[p]]

\* the loop "while path.exists(): path = folder / f'{base_name}_{counter}
\* {extension}'; counter += 1", from counter on
RECURSIVE SuffixLoop(_, _, _, _, _, _)
SuffixLoop(fsys, ds, folder, base_name, extension, counter) ==
    LET new_name == base_name \o "_" \o ToString(counter) \o extension
    IN  IF exists(fsys, ds, folder \o <<new_name>>)
        THEN SuffixLoop(fsys, ds, folder, base_name, extension, counter + 1)
        ELSE folder \o <<new_name>>

\* "if path.exists(): base_name = path.stem; extension = path.suffix;
\* counter = 1; while ...": the path itself when it is free
AddSuffix(fsys, ds, path) ==
    IF exists(fsys, ds, path)
    THEN SuffixLoop(fsys, ds, ParentOf(path), PathStem(NameOf(path)),
                    PathSuffix(NameOf(path)), 1)
    ELSE path

(***************************************************************************)
(* organize_images: where a file goes.                                     *)
(***************************************************************************)
\* lines 349-350
month_folder(d) == destination_path \o <<ToString(d.year), Pad2(d.month)>>

\* a duplicates area without the folder of the source directory
dup_subdir_flat(path) == duplicates_path

\* lines 320-323
dup_subdir(path) == duplicates_path \o <<ParentName(path)>>

\* lines 327-338: the path a duplicate is copied to
dup_dest_path(fsys, ds, path, d) ==
    AddSuffix(fsys, ds,
              dup_subdir(path) \o
                 <<ToString(d.year) \o "_" \o Pad2(d.month) \o "_" \o NameOf(path)>>)

\* line 356: the path a new file is first given
dest_file_path(path, d) == month_folder(d) \o <<NameOf(path)>>

\* lines 389-400: the path with the tag prefix before its name
prefixed_path(path, tag) ==
    IF tag # NoTag THEN ParentOf(path) \o <<tag \o "_" \o NameOf(path)>> ELSE path

\* lines 359-405: the path a new file is copied to, once the name check has
\* not found the same content there: the suffix first, then the tag prefix
new_dest_path(fsys, ds, path, d, tag) ==
    prefixed_path(AddSuffix(fsys, ds, dest_file_path(path, d)), tag)

(***************************************************************************)
(* organize_images and main.                                               *)
(***************************************************************************)
AtFile == pc = "walk" /\ i <= Len(files)

Op(kind, target) ==
    [pass |-> k, idx |-> i, kind |-> kind, target |-> target,
     existed |-> target \in DOMAIN fs]

runVars == <<files, tag_prefix, k, summaries, dest_at_start, duplicateVars, dateVars, walkVars>>

\* main, lines 458-460, and organize_images, lines 273-292: the source folder
\* exists (it holds the listing); the destination and its duplicates folder
\* are created, the counters and the tracker start empty
OrganizeStart ==
    /\ pc = "start"
    /\ dirs' = dirs \cup WithParents(duplicates_path)
    /\ processed_count' = 0
    /\ duplicate_count' = 0
    /\ skipped_count' = 0
    /\ already_exists_count' = 0
    /\ removed_count' = 0
    /\ file_hashes' = [h \in {} |-> << >>]
    /\ i' = 1
    /\ pc' = "walk"
    /\ dest_at_start' = Append(dest_at_start, DestFiles(fs))
    /\ UNCHANGED <<fs, files, tag_prefix, k, summaries, lastOp, faults,
                   duplicateVars, dateVars, walkVars>>

\* lines 299, 413-414: not an image
SkipNonImage ==
    /\ skipped_count' = skipped_count + 1
    /\ i' = i + 1
    /\ lastOp' = Op("not_image", << >>)
    /\ UNCHANGED <<fs, dirs, pc, file_hashes, processed_count, duplicate_count,
                   already_exists_count, removed_count, faults, runVars>>

\* a failed fingerprint that is not counted
HashFailure_uncounted ==
    /\ i' = i + 1
    /\ lastOp' = Op("no_hash", << >>)
    /\ faults < MaxFaults
    /\ faults' = faults + 1
    /\ UNCHANGED <<fs, dirs, pc, file_hashes, processed_count, duplicate_count,
                   skipped_count, already_exists_count, removed_count, runVars>>

\* lines 302-306: get_file_hash returns None
HashFailure ==
    /\ skipped_count' = skipped_count + 1
    /\ i' = i + 1
    /\ lastOp' = Op("no_hash", << >>)
    /\ faults < MaxFaults
    /\ faults' = faults + 1
    /\ UNCHANGED <<fs, dirs, pc, file_hashes, processed_count, duplicate_count,
                   already_exists_count, removed_count, runVars>>

\* lines 315-345: the tracker knows the hash
CopyDuplicate(path, d) ==
    /\ LET subdir_path == dup_subdir(path)
           made == dirs \cup WithParents(subdir_path)
           target == dup_dest_path(fs, made, path, d)
       IN  /\ dirs' = made
           /\ fs' = copy2(fs, path, target)
           /\ lastOp' = Op("duplicate", target)
    /\ duplicate_count' = duplicate_count + 1
    /\ i' = i + 1
    /\ UNCHANGED <<pc, file_hashes, processed_count, skipped_count,
                   already_exists_count, removed_count, faults, runVars>>

\* line 361: what get_file_hash gives for the file at the first destination
\* path, None when that file cannot be read
ExistingHashes(first) ==
    IF first \in DOMAIN fs
    THEN {get_file_hash(fs[first].content), None}
    ELSE {None}

\* lines 347-366: a new hash, and the file of that name in the month folder
\* has the same hash
SkipIdentical(path, file_hash, d) ==
    /\ exists(fs, dirs, dest_file_path(path, d))
    /\ dest_file_path(path, d) \in DOMAIN fs
    /\ get_file_hash(fs[dest_file_path(path, d)].content) = file_hash
    /\ dirs' = dirs \cup WithParents(month_folder(d))
    /\ already_exists_count' = already_exists_count + 1
    /\ i' = i + 1
    /\ lastOp' = Op("identical", dest_file_path(path, d))
    /\ UNCHANGED <<fs, pc, file_hashes, processed_count, duplicate_count,
                   skipped_count, removed_count, faults, runVars>>

\* lines 347-408: a new hash, and no file of that name and hash in the
\* month folder (existing_hash is None when the file there cannot be read)
CopyNew(path, file_hash, d) ==
    /\ \E existing_hash \in ExistingHashes(dest_file_path(path, d)) :
         /\ exists(fs, dirs, dest_file_path(path, d)) => existing_hash # file_hash
         /\ IF dest_file_path(path, d) \in DOMAIN fs /\ existing_hash = None
            THEN faults < MaxFaults /\ faults' = faults + 1
            ELSE faults' = faults
    /\ LET made == dirs \cup WithParents(month_folder(d))
           target == new_dest_path(fs, made, path, d, tag_prefix)
       IN  /\ dirs' = made
           /\ fs' = copy2(fs, path, target)
           /\ file_hashes' = (file_hash :> target) @@ file_hashes
           /\ lastOp' = Op("new", target)
    /\ processed_count' = processed_count + 1
    /\ i' = i + 1
    /\ UNCHANGED <<pc, duplicate_count, skipped_count, already_exists_count,
                   removed_count, runVars>>

\* lines 410-412: shutil.copy2 raises (the source can no longer be read, the
\* target cannot be written) after the folder of the target was made
ProcessingError(path, file_hash, d) ==
    /\ dirs' = dirs \cup WithParents(IF file_hash \in DOMAIN file_hashes
                                     THEN dup_subdir(path)
                                     ELSE month_folder(d))
    /\ skipped_count' = skipped_count + 1
    /\ i' = i + 1
    /\ lastOp' = Op("error", << >>)
    /\ faults < MaxFaults
    /\ faults' = faults + 1
    /\ UNCHANGED <<fs, pc, file_hashes, processed_count, duplicate_count,
                   already_exists_count, removed_count, runVars>>

\* lines 295-414: the body of the loop for the file at hand
ProcessFile ==
    /\ AtFile
    /\ LET file_path == files[i]
           image == is_image_file(file_path)
           file_hash == get_file_hash(fs[file_path].content)
           date == resolve_date(ExifOf(fs[file_path].content), fs[file_path].mtime)
       IN  \/ ~image /\ SkipNonImage
           \/ image /\ HashFailure
           \/ image /\ file_hash \in DOMAIN file_hashes
                    /\ CopyDuplicate(file_path, date)
           \/ image /\ file_hash \notin DOMAIN file_hashes
                    /\ SkipIdentical(file_path, file_hash, date)
           \/ image /\ file_hash \notin DOMAIN file_hashes
                    /\ CopyNew(file_path, file_hash, date)
           \/ image /\ ProcessingError(file_path, file_hash, date)

\* lines 295-296, 416-417: the listing is exhausted
WalkDone ==
    /\ pc = "walk"
    /\ i > Len(files)
    /\ pc' = "cleanup"
    /\ UNCHANGED <<fs, dirs, i, file_hashes, processed_count, duplicate_count,
                   skipped_count, already_exists_count, removed_count, lastOp,
                   faults, runVars>>

(***************************************************************************)
(* remove_resource_fork_files, and the end of a pass.                      *)
(***************************************************************************)
\* lines 95-96: the files under the destination the sweep has yet to remove
ResourceForks ==
    {p \in DOMAIN fs : IsUnder(p, destination_path) /\ StartsWith(NameOf(p), "._")}

\* lines 97-99: one file of the sweep is removed
UnlinkFork ==
    /\ pc = "cleanup"
    /\ \E p \in ResourceForks : fs' = unlink(fs, p)
    /\ removed_count' = removed_count + 1
    /\ UNCHANGED <<dirs, pc, i, file_hashes, processed_count, duplicate_count,
                   skipped_count, already_exists_count, lastOp, faults, runVars>>

\* line 97: path.unlink() raises; nothing between it and the interpreter
\* catches the exception
UnlinkFailure ==
    /\ pc = "cleanup"
    /\ ResourceForks # {}
    /\ pc' = "crashed"
    /\ faults < MaxFaults
    /\ faults' = faults + 1
    /\ UNCHANGED <<fs, dirs, i, file_hashes, processed_count, duplicate_count,
                   skipped_count, already_exists_count, removed_count, lastOp,
                   runVars>>

\* lines 101, 418-425 and main's loop, lines 458-460: the sweep is over, the
\* statistics are printed, main goes on to its next source folder
Summary ==
    /\ pc = "cleanup"
    /\ ResourceForks = {}
    /\ summaries' = Append(summaries,
                           [processed |-> processed_count,
                            duplicates |-> duplicate_count,
                            already |-> already_exists_count,
                            skipped |-> skipped_count,
                            removed |-> removed_count])
    /\ IF k < Len(SourceArgs)
       THEN k' = k + 1 /\ pc' = "start"
       ELSE k' = k /\ pc' = "done"
    /\ UNCHANGED <<fs, dirs, files, tag_prefix, i, file_hashes, processed_count,
                   duplicate_count, skipped_count, already_exists_count,
                   removed_count, lastOp, faults, dest_at_start, duplicateVars, dateVars, walkVars>>

Next ==
    \/ OrganizeStart
    \/ ProcessFile
    \/ WalkDone
    \/ UnlinkFork
    \/ UnlinkFailure
    \/ Summary

Spec == Init /\ [][Next]_vars

(***************************************************************************)
(* find_duplicates: the duplicate check of one folder.                     *)
(***************************************************************************)
folder_path == source_path

\* the duplicates folder of the scanned folder (find_duplicates' own
\* duplicates_path)
folder_duplicates_path == folder_path \o <<"duplicates">>

\* a file moved into the duplicates folder by an earlier check
MovedEarlier == folder_duplicates_path \o <<"photos", "a.jpg">>

\* the files the scanned folder may hold
ScanPaths == SourcePaths \cup {MovedEarlier}

\* the modification time plays no part in the duplicate check
ScanKinds == {[content |-> c, mtime |-> Jan] : c \in Contents}

\* os.walk(folder_path): the files of the folder itself in any order, then
\* those of its subdirectories
ScanListings ==
    { l \in UNION {[1..n -> ScanPaths] : n \in 0..MaxScan} :
        /\ \A m, n \in 1..Len(l) : m # n => l[m] # l[n]
        /\ \A m, n \in 1..Len(l) : (m < n) => Len(l[m]) <= Len(l[n]) }

InitDup ==
    /\ destination_path = default_destination
    /\ pending = << >>
    /\ \E listing \in ScanListings :
         \E kinds \in [Range(listing) -> ScanKinds] :
            /\ \A p \in Range(listing) :
                  ~is_image_file(p) => kinds[p].content = "X"
            /\ files = listing
            /\ fs = kinds
            /\ fs_at_start = kinds
            /\ dirs = UNION {WithParents(ParentOf(p)) : p \in Range(listing)}
                        \cup {folder_path}
    /\ move_to_duplicates \in BOOLEAN
    /\ pc = "find_duplicates"
    /\ i = 0
    /\ file_hashes = [h \in {} |-> << >>]
    /\ duplicates = << >>
    /\ duplicate_count = 0
    /\ moved_count = 0
    /\ unreadable = {}
    /\ lastOp = NoOp
    /\ faults = 0
    /\ tag_prefix = NoTag
    /\ k = 1
    /\ processed_count = 0
    /\ skipped_count = 0
    /\ already_exists_count = 0
    /\ removed_count = 0
    /\ summaries = << >>
    /\ dest_at_start = << >>
    /\ exif_tags = [f \in {} |-> ""]
    /\ mod_time = NoDate
    /\ date_obj = NoDate

\* lines 114-128: the folder exists; with move enabled its duplicates folder
\* is created; the tracker, the duplicates and the counters start empty
FindDuplicatesStart ==
    /\ pc = "find_duplicates"
    /\ dirs' = IF move_to_duplicates
               THEN dirs \cup WithParents(folder_duplicates_path)
               ELSE dirs
    /\ file_hashes' = [h \in {} |-> << >>]
    /\ duplicates' = << >>
    /\ duplicate_count' = 0
    /\ moved_count' = 0
    /\ i' = 1
    /\ pc' = "scan"
    /\ UNCHANGED <<fs, files, lastOp, faults, organizeVars, dateVars, walkVars,
                   move_to_duplicates, unreadable, fs_at_start>>

\* line 140, as it would read without the test: no file is passed over
in_duplicates_never(path) == FALSE

\* line 140: 'duplicates' in file_path.parts
in_duplicates(path) == \E n \in 1..Len(path) : path[n] = "duplicates"

\* lines 151-154: the dict "duplicates" keeps its keys in insertion order; a
\* new key starts with the first occurrence, then the path is appended
AddDuplicate(dups, file_hash, first, path) ==
    IF \E n \in 1..Len(dups) : dups[n].hash = file_hash
    THEN [n \in 1..Len(dups) |->
             IF dups[n].hash = file_hash
             THEN [dups[n] EXCEPT !.paths = Append(@, path)]
             ELSE dups[n]]
    ELSE Append(dups, [hash |-> file_hash, paths |-> <<first, path>>])

\* lines 135-159: one file of the walk
ScanFile ==
    /\ pc = "scan"
    /\ i <= Len(files)
    /\ i' = i + 1
    /\ LET file_path == files[i]
           file_hash == get_file_hash(fs[file_path].content)
       IN  \/ \* lines 140-141: in a duplicates folder; lines 143: not an image
              /\ in_duplicates(file_path) \/ ~is_image_file(file_path)
              /\ UNCHANGED <<file_hashes, duplicates, duplicate_count,
                             unreadable, faults>>
           \/ \* lines 147-148: get_file_hash returned None
              /\ ~in_duplicates(file_path)
              /\ is_image_file(file_path)
              /\ faults < MaxFaults
              /\ faults' = faults + 1
              /\ unreadable' = unreadable \cup {i}
              /\ UNCHANGED <<file_hashes, duplicates, duplicate_count>>
           \/ \* lines 150-155: a fingerprint seen before
              /\ ~in_duplicates(file_path)
              /\ is_image_file(file_path)
              /\ file_hash \in DOMAIN file_hashes
              /\ duplicates' = AddDuplicate(duplicates, file_hash,
                                            file_hashes[file_hash], file_path)
              /\ duplicate_count' = duplicate_count + 1
              /\ UNCHANGED <<file_hashes, unreadable, faults>>
           \/ \* lines 156-157: a new fingerprint
              /\ ~in_duplicates(file_path)
              /\ is_image_file(file_path)
              /\ file_hash \notin DOMAIN file_hashes
              /\ file_hashes' = (file_hash :> file_path) @@ file_hashes
              /\ UNCHANGED <<duplicates, duplicate_count, unreadable, faults>>
    /\ UNCHANGED <<fs, dirs, files, pc, lastOp, organizeVars, dateVars, walkVars,
                   move_to_duplicates, moved_count, fs_at_start>>

\* lines 162-168: the paths[1:] of every entry of "duplicates", in the order
\* the loops visit them
RECURSIVE DuplicatePaths(_)
DuplicatePaths(dups) ==
    IF dups = << >> THEN << >>
    ELSE Tail(Head(dups).paths) \o DuplicatePaths(Tail(dups))

\* lines 162-204: the walk is over; without duplicates, or without the move
\* option, only the report is printed
ScanDone ==
    /\ pc = "scan"
    /\ i > Len(files)
    /\ i' = 1
    /\ pc' = IF move_to_duplicates /\ duplicates # << >>
             THEN "move" ELSE "returned"
    /\ UNCHANGED <<fs, dirs, files, file_hashes, duplicate_count, lastOp,
                   faults, organizeVars, duplicateVars, dateVars, walkVars>>

\* lines 173-192: the subdirectory named after the parent directory of the
\* duplicate, and a name in it that is not taken
move_dest_path(fsys, ds, path) ==
    LET subdir_path == folder_duplicates_path \o <<ParentName(path)>>
    IN  AddSuffix(fsys, ds \cup {subdir_path}, subdir_path \o <<NameOf(path)>>)

\* lines 170-197: one duplicate is moved
MoveDuplicate ==
    /\ pc = "move"
    /\ i <= Len(DuplicatePaths(duplicates))
    /\ LET path == DuplicatePaths(duplicates)[i]
           dest_path == move_dest_path(fs, dirs, path)
       IN  /\ fs' = unlink(copy2(fs, path, dest_path), path)
           /\ dirs' = dirs \cup {ParentOf(dest_path)}
           /\ lastOp' = [pass |-> k, idx |-> i, kind |-> "move",
                         target |-> dest_path,
                         existed |-> dest_path \in DOMAIN fs]
    /\ moved_count' = moved_count + 1
    /\ i' = i + 1
    /\ UNCHANGED <<files, pc, file_hashes, duplicate_count, faults,
                   organizeVars, dateVars, walkVars, move_to_duplicates, duplicates,
                   unreadable, fs_at_start>>

\* lines 198-199: shutil.move raises; the file stays, the count does not move
MoveFailure ==
    /\ pc = "move"
    /\ i <= Len(DuplicatePaths(duplicates))
    /\ faults < MaxFaults
    /\ faults' = faults + 1
    /\ LET path == DuplicatePaths(duplicates)[i]
       IN  /\ dirs' = dirs \cup {ParentOf(move_dest_path(fs, dirs, path))}
           /\ lastOp' = [pass |-> k, idx |-> i, kind |-> "move_error",
                         target |-> path, existed |-> TRUE]
    /\ i' = i + 1
    /\ UNCHANGED <<fs, files, pc, file_hashes, duplicate_count, organizeVars,
                   duplicateVars, dateVars, walkVars>>

\* lines 203-208: the totals are printed and returned
MoveDone ==
    /\ pc = "move"
    /\ i > Len(DuplicatePaths(duplicates))
    /\ pc' = "returned"
    /\ UNCHANGED <<fs, dirs, files, i, file_hashes, duplicate_count, lastOp,
                   faults, organizeVars, duplicateVars, dateVars, walkVars>>

NextDup ==
    \/ FindDuplicatesStart
    \/ ScanFile
    \/ ScanDone
    \/ MoveDuplicate
    \/ MoveFailure
    \/ MoveDone

SpecDup == InitDup /\ [][NextDup]_vars

(***************************************************************************)
(* The capture date of one file, as line 312 resolves it.                  *)
(***************************************************************************)
\* what a date field may hold: two dates, a month that does not exist, a day
\* that does not exist, separators of another format, the all-zero date some
\* cameras write, and the empty string
DateStrings ==
    { "2021:03:04 05:06:07", "2022:01:15 10:00:00", "2022:13:01 10:00:00",
      "2023:02:29 10:00:00", "2022-01-15 10:00:00", "0000:00:00 00:00:00", "" }

\* what exifread may find in a file: any of the three fields, each with any
\* of these values
ExifData ==
    UNION { [S -> DateStrings] : S \in SUBSET Range(date_fields) }

InitDate ==
    /\ destination_path = default_destination
    /\ pending = << >>
    /\ exif_tags \in ExifData
    /\ mod_time \in {NoDate, Jan, Feb}
    /\ date_obj = NoDate
    /\ pc = "get_date_from_exif"
    /\ files = << >>
    /\ fs = [p \in {} |-> PlainKind]
    /\ fs_at_start = [p \in {} |-> PlainKind]
    /\ dirs = {}
    /\ move_to_duplicates = FALSE
    /\ i = 0
    /\ file_hashes = [h \in {} |-> << >>]
    /\ duplicates = << >>
    /\ duplicate_count = 0
    /\ moved_count = 0
    /\ unreadable = {}
    /\ lastOp = NoOp
    /\ faults = 0
    /\ tag_prefix = NoTag
    /\ k = 1
    /\ processed_count = 0
    /\ skipped_count = 0
    /\ already_exists_count = 0
    /\ removed_count = 0
    /\ summaries = << >>
    /\ dest_at_start = << >>

nonDateVars == << fs, dirs, files, i, file_hashes, duplicate_count, lastOp,
                  faults, organizeVars, duplicateVars, walkVars >>

\* line 312, left of "or": get_date_from_exif; its result is used when it is
\* not None
GetDateFromExif ==
    /\ pc = "get_date_from_exif"
    /\ date_obj' = get_date_from_exif(exif_tags)
    /\ pc' = IF date_obj' # NoDate THEN "dated" ELSE "get_date_from_file"
    /\ UNCHANGED <<exif_tags, mod_time, nonDateVars>>

\* line 312, right of "or": get_date_from_file
GetDateFromFile ==
    /\ pc = "get_date_from_file"
    /\ date_obj' = get_date_from_file(mod_time)
    /\ pc' = "dated"
    /\ UNCHANGED <<exif_tags, mod_time, nonDateVars>>

NextDate ==
    \/ GetDateFromExif
    \/ GetDateFromFile

SpecDate == InitDate /\ [][NextDate]_vars

(***************************************************************************)
(* organize_images with the destination anywhere: apart from the source,   *)
(* below a directory that does not exist yet, or inside the source folder, *)
(* where os.walk comes upon what the pass itself has copied.               *)
(***************************************************************************)
\* where --destination may point
Destinations ==
    { default_destination, <<"archive", "out">>,
      source_path \o <<"sorted", "out">> }

\* what a source file may be there: both contents, dated to the same month
WalkKinds == {PlainKind, [content |-> "Y", mtime |-> Jan]}

\* what the destination may hold before the run: nothing, or a resource
\* fork file
WalkSeeds == {[p \in {} |-> PlainKind], [p \in {ForkA} |-> PlainKind]}

\* every order in which scandir may give the members of a set
Orderings(S) ==
    { o \in [1..Cardinality(S) -> S] :
         \A m, n \in 1..Cardinality(S) : m # n => o[m] # o[n] }

\* the files and the directories a directory holds
FilesIn(fsys, top) == {p \in DOMAIN fsys : ParentOf(p) = top}

DirsIn(ds, top) == {d \in ds : Len(d) = Len(top) + 1 /\ ParentOf(d) = top}

InitWalk ==
    /\ destination_path \in Destinations
    /\ pending = << >>
    /\ \E sources \in SUBSET SourcePaths, seed \in WalkSeeds :
         \E kinds \in [sources -> WalkKinds] :
            /\ Cardinality(sources) <= MaxSources
            /\ \A p \in sources : ~is_image_file(p) => kinds[p] = PlainKind
            /\ fs = kinds @@ seed
            /\ dirs = UNION {WithParents(ParentOf(p)) :
                                p \in sources \cup DOMAIN seed}
                        \cup {source_path}
    /\ files = << >>
    /\ tag_prefix \in Tags
    /\ k = 1
    /\ pc = "start"
    /\ i = 0
    /\ file_hashes = [h \in {} |-> << >>]
    /\ processed_count = 0
    /\ duplicate_count = 0
    /\ skipped_count = 0
    /\ already_exists_count = 0
    /\ removed_count = 0
    /\ summaries = << >>
    /\ lastOp = NoOp
    /\ faults = 0
    /\ dest_at_start = << >>
    /\ move_to_duplicates = FALSE
    /\ duplicates = << >>
    /\ moved_count = 0
    /\ unreadable = {}
    /\ fs_at_start = fs
    /\ exif_tags = [f \in {} |-> ""]
    /\ mod_time = NoDate
    /\ date_obj = NoDate

\* lines 273-295: as OrganizeStart, and os.walk is set to list the source
\* folder
OrganizeWalkStart ==
    /\ pc = "start"
    /\ dirs' = dirs \cup WithParents(duplicates_path)
    /\ processed_count' = 0
    /\ duplicate_count' = 0
    /\ skipped_count' = 0
    /\ already_exists_count' = 0
    /\ removed_count' = 0
    /\ file_hashes' = [h \in {} |-> << >>]
    /\ files' = << >>
    /\ pending' = <<source_path>>
    /\ i' = 1
    /\ pc' = "walk"
    /\ dest_at_start' = Append(dest_at_start, DestFiles(fs))
    /\ UNCHANGED <<fs, tag_prefix, k, summaries, lastOp, faults, duplicateVars,
                   dateVars, destination_path>>

\* line 295, os.walk top-down: the files of the last directory are done; the
\* next directory is listed as it is now, its files are handed to the loop
\* and its subdirectories are put before the directories still to be listed
WalkDirectory ==
    /\ pc = "walk"
    /\ i > Len(files)
    /\ pending # << >>
    /\ \E nondirs \in Orderings(FilesIn(fs, Head(pending))),
          subdirs \in Orderings(DirsIn(dirs, Head(pending))) :
          /\ files' = files \o nondirs
          /\ pending' = subdirs \o Tail(pending)
    /\ UNCHANGED <<fs, dirs, pc, i, file_hashes, duplicate_count, lastOp, faults,
                   organizeVars, duplicateVars, dateVars, destination_path>>

\* lines 295, 416-417: os.walk has no directory left
WalkEnd ==
    /\ pc = "walk"
    /\ i > Len(files)
    /\ pending = << >>
    /\ pc' = "cleanup"
    /\ UNCHANGED <<fs, dirs, files, i, file_hashes, duplicate_count, lastOp,
                   faults, organizeVars, duplicateVars, dateVars, walkVars>>

\* lines 101, 418-425, and main given this one source folder: the sweep is
\* over, the statistics are printed, the program ends
LastSummary ==
    /\ pc = "cleanup"
    /\ ResourceForks = {}
    /\ summaries' = Append(summaries,
                           [processed |-> processed_count,
                            duplicates |-> duplicate_count,
                            already |-> already_exists_count,
                            skipped |-> skipped_count,
                            removed |-> removed_count])
    /\ pc' = "done"
    /\ UNCHANGED <<fs, dirs, files, tag_prefix, k, i, file_hashes,
                   processed_count, duplicate_count, skipped_count,
                   already_exists_count, removed_count, lastOp, faults,
                   dest_at_start, duplicateVars, dateVars, walkVars>>

NextWalk ==
    \/ OrganizeWalkStart
    \/ WalkDirectory
    \/ ProcessFile
    \/ WalkEnd
    \/ UnlinkFork
    \/ UnlinkFailure
    \/ LastSummary

SpecWalk == InitWalk /\ [][NextWalk]_vars

(***************************************************************************)
(* What the claims speak of.                                               *)
(***************************************************************************)
\* the file number n of the listing: whether it is an image, its content,
\* its date
ImageAt(n) == is_image_file(files[n])

ContentAt(n) == fs[files[n]].content

DateAt(n) == resolve_date(ExifOf(fs[files[n]].content), fs[files[n]].mtime)

\* an image before number n in the listing has the content of file n
SeenBefore(n) ==
    \E j \in 1..(n - 1) : ImageAt(j) /\ ContentAt(j) = ContentAt(n)

\* the last file handled was copied
Copied == lastOp.kind \in {"new", "duplicate"}

(***************************************************************************)
(* C1: in organize mode no copy ever writes to a path that already holds   *)
(* a file: when a file is copied, its final target path (in the month      *)
(* folder, with or without tag prefix, or in the duplicates area) did not  *)
(* exist before the copy.                                                  *)
(***************************************************************************)
C1_NoCopyOverwrites == Copied => ~lastOp.existed

(***************************************************************************)
(* C2: a second organize pass over the same source and destination, with   *)
(* nothing changed in between, copies no file into a month folder (its     *)
(* processed count is 0) and counts as already in the destination as many  *)
(* files as the first pass placed; stated here for runs without failures   *)
(* into a destination that was empty before the first pass.                *)
(***************************************************************************)
C2_RerunIsIdempotent ==
    (Len(summaries) = 2 /\ faults = 0 /\ dest_at_start[1] = {})
        => /\ summaries[2].processed = 0
           /\ summaries[2].already = summaries[1].processed

(***************************************************************************)
(* C4: within one pass only the first image with a given fingerprint is    *)
(* treated as new; a later image with the same fingerprint finds a tracker *)
(* entry and goes to the duplicates area, never to a month folder and      *)
(* never through the name check of a new file (stated for passes in which  *)
(* every image is fingerprinted).                                          *)
(***************************************************************************)
C4_LaterFilesAreDuplicates ==
    (faults = 0 /\ lastOp.kind \in {"new", "identical"})
        => ~SeenBefore(lastOp.idx)

(***************************************************************************)
(* C7: a failure to delete a resource fork file does not abort the sweep:  *)
(* whenever the program has stopped, every source folder of the invocation *)
(* has been processed and has printed its summary.                         *)
(***************************************************************************)
C7_SweepFailureIsNotFatal ==
    pc \in {"done", "crashed"} => Len(summaries) = Len(SourceArgs)

(***************************************************************************)
(* C3, as claimed: in a pass into an empty destination in which every      *)
(* image is read, the first file of each content is copied to              *)
(* destination/YYYY/MM/<name> and every later file of that content is      *)
(* copied to destination/duplicates/<parent>/YYYY_MM_<name>; at the end    *)
(* the processed count is the number of contents and the duplicate count   *)
(* the number of images less the number of contents (stated for runs      *)
(* without a tag prefix).                                                  *)
(***************************************************************************)
\* the first pass, begun with an empty destination, nothing having failed
FirstPassFromEmpty ==
    /\ Len(dest_at_start) = 1
    /\ dest_at_start[1] = {}
    /\ Len(summaries) = 0
    /\ faults = 0

Images == {n \in 1..Len(files) : ImageAt(n)}

ImageContents == {ContentAt(n) : n \in Images}

\* the name with _n before its extension, the name itself for n = 0
Suffixed(name, n) ==
    IF n = 0 THEN name
    ELSE PathStem(name) \o "_" \o ToString(n) \o PathSuffix(name)

\* the name with the tag prefix of the run before it
Tagged(name) == IF tag_prefix = NoTag THEN name ELSE tag_prefix \o "_" \o name

YearMonth(n) == <<ToString(DateAt(n).year), Pad2(DateAt(n).month)>>

DupName(n) == YearMonth(n)[1] \o "_" \o YearMonth(n)[2] \o "_" \o NameOf(files[n])

CountsAtEnd ==
    pc = "cleanup" =>
        /\ processed_count = Cardinality(ImageContents)
        /\ duplicate_count = Cardinality(Images) - Cardinality(ImageContents)

C3_PlainNames ==
    (/\ FirstPassFromEmpty /\ lastOp.pass = 1 /\ ImageAt(lastOp.idx)
     /\ tag_prefix = NoTag) =>
        /\ ~SeenBefore(lastOp.idx) =>
              /\ lastOp.kind = "new"
              /\ lastOp.target =
                   destination_path \o YearMonth(lastOp.idx)
                      \o <<NameOf(files[lastOp.idx])>>
        /\ SeenBefore(lastOp.idx) =>
              /\ lastOp.kind = "duplicate"
              /\ lastOp.target =
                   destination_path
                      \o <<"duplicates", ParentName(files[lastOp.idx]),
                           DupName(lastOp.idx)>>
        /\ CountsAtEnd

(***************************************************************************)
(* C3, amended: the first file of each content is copied into              *)
(* destination/YYYY/MM as <name>, or as <stem>_N<ext> when that name is    *)
(* taken, with <tag>_ before it when a tag prefix is set; every later file *)
(* of that content is copied, never skipped, into                          *)
(* destination/duplicates/<parent> as YYYY_MM_<name>, or with _N before    *)
(* the extension when that name is taken; the counts are as claimed.       *)
(***************************************************************************)
C3_NamesUpToSuffixAndTag ==
    (FirstPassFromEmpty /\ lastOp.pass = 1 /\ ImageAt(lastOp.idx)) =>
        /\ ~SeenBefore(lastOp.idx) =>
              /\ lastOp.kind = "new"
              /\ \E n \in 0..Len(files) :
                    lastOp.target =
                       destination_path \o YearMonth(lastOp.idx)
                          \o <<Tagged(Suffixed(NameOf(files[lastOp.idx]), n))>>
        /\ SeenBefore(lastOp.idx) =>
              /\ lastOp.kind = "duplicate"
              /\ \E n \in 0..Len(files) :
                    lastOp.target =
                       destination_path
                          \o <<"duplicates", ParentName(files[lastOp.idx]),
                               Suffixed(DupName(lastOp.idx), n)>>
        /\ fs[lastOp.target] = fs[files[lastOp.idx]]
        /\ CountsAtEnd

\* a first pass into an empty destination that has copied one new file and
\* two duplicates of it, the second under a suffixed name
C3_Witness ==
    /\ FirstPassFromEmpty
    /\ pc = "cleanup"
    /\ processed_count = 1
    /\ duplicate_count = 2
    /\ lastOp.kind = "duplicate"
    /\ lastOp.target = duplicates_path \o <<"photos", "2022_01_a_1.jpg">>

(***************************************************************************)
(* C5: two files of the same name, the same month and different content,   *)
(* placed into a month folder that held neither, end at two distinct       *)
(* paths, <name> and <stem>_1<ext>, both contents preserved (the name      *)
(* being the one the file is placed under, with the tag prefix when one is *)
(* set; stated for a pass into an empty destination).                      *)
(***************************************************************************)
C5_BothContentsKept ==
    (FirstPassFromEmpty /\ pc = "cleanup") =>
        \A m, n \in Images :
            (/\ m < n
             /\ NameOf(files[m]) = NameOf(files[n])
             /\ DateAt(m) = DateAt(n)
             /\ ContentAt(m) # ContentAt(n)
             /\ ~SeenBefore(m) /\ ~SeenBefore(n))
            => \E name \in {NameOf(files[m]), Tagged(NameOf(files[m]))} :
                  LET first == destination_path \o YearMonth(m) \o <<name>>
                      second == destination_path \o YearMonth(m)
                                   \o <<Suffixed(name, 1)>>
                  IN  /\ first \in DOMAIN fs
                      /\ second \in DOMAIN fs
                      /\ fs[first].content = ContentAt(m)
                      /\ fs[second].content = ContentAt(n)

(***************************************************************************)
(* C8: when fingerprinting an image fails, the file is counted once as     *)
(* skipped, no directory or file is created, the tracker is unchanged and  *)
(* the walk goes on with the next file; an exception raised while a file   *)
(* is processed likewise adds one to the skipped count and the walk goes   *)
(* on with the next file.                                                  *)
(***************************************************************************)
C8_FailedFilesAreSkipped ==
    [][ (lastOp' # lastOp /\ lastOp'.kind \in {"no_hash", "error"}) =>
           /\ skipped_count' = skipped_count + 1
           /\ processed_count' = processed_count
           /\ duplicate_count' = duplicate_count
           /\ already_exists_count' = already_exists_count
           /\ pc = "walk" /\ pc' = "walk"
           /\ i' = i + 1
           /\ fs' = fs
           /\ file_hashes' = file_hashes
           /\ (lastOp'.kind = "no_hash" => dirs' = dirs) ]_vars

\* a file that could not be fingerprinted was skipped and a file follows it
C8_Witness ==
    /\ lastOp.kind = "no_hash"
    /\ pc = "walk"
    /\ i <= Len(files)
    /\ skipped_count = 1

(***************************************************************************)
(* C10: with a tag prefix the prefix is put before the name before the     *)
(* collision handling: the existence check, the skip of a file of the same *)
(* content and the _N suffix all apply to destination/YYYY/MM/<tag>_<name>,*)
(* and the path written and recorded in the tracker is that prefixed and   *)
(* collision-resolved path (stated for steps in which nothing fails).      *)
(***************************************************************************)
C10_TagBeforeCollisionHandling ==
    [][ (/\ tag_prefix # NoTag
         /\ lastOp' # lastOp
         /\ lastOp'.kind \in {"new", "identical"}
         /\ faults' = 0) =>
           LET tagged == destination_path \o YearMonth(i)
                            \o <<tag_prefix \o "_" \o NameOf(files[i])>>
           IN  IF tagged \in DOMAIN fs /\ fs[tagged].content = ContentAt(i)
               THEN /\ lastOp'.kind = "identical"
                    /\ lastOp'.target = tagged
                    /\ fs' = fs
               ELSE /\ lastOp'.kind = "new"
                    /\ lastOp'.target = AddSuffix(fs, dirs', tagged)
                    /\ get_file_hash(ContentAt(i)) \in DOMAIN file_hashes'
                    /\ file_hashes'[get_file_hash(ContentAt(i))] = lastOp'.target ]_vars


(***************************************************************************)
(* The duplicate check, as C6 reads it.                                    *)
(***************************************************************************)
\* the content a listed file had when the scan began
StartContent(n) == fs_at_start[files[n]].content

ScanImages == {n \in 1..Len(files) : is_image_file(files[n])}

\* of a set of listed files, those that no earlier one of the set equals
FirstOccurrences(S) ==
    {n \in S : ~\E m \in S : m < n /\ StartContent(m) = StartContent(n)}

UnderDuplicates(fsys) ==
    {p \in DOMAIN fsys : IsUnder(p, folder_duplicates_path)}

\* the moves that raised an error: the failures that were not hash failures
MoveFailures == faults - Cardinality(unreadable)

\* what a check that has returned has done, given the files it counts and the
\* number of moves that failed
DuplicateCheck(counted, failed) ==
    /\ duplicate_count =
          Cardinality(counted) - Cardinality({StartContent(n) : n \in counted})
    /\ ~move_to_duplicates => moved_count = 0 /\ fs = fs_at_start
    /\ move_to_duplicates =>
          /\ moved_count = duplicate_count - failed
          /\ Cardinality(UnderDuplicates(fs)) =
                Cardinality(UnderDuplicates(fs_at_start)) + moved_count
          /\ \A p \in UnderDuplicates(fs) \ DOMAIN fs_at_start :
                \E n \in counted \ FirstOccurrences(counted) :
                   /\ files[n] \notin DOMAIN fs
                   /\ fs[p] = fs_at_start[files[n]]
                   /\ ParentOf(p) = folder_duplicates_path \o <<ParentName(files[n])>>
                   /\ \/ NameOf(p) = NameOf(files[n])
                      \/ \E c \in 1..Len(files) :
                            NameOf(p) = Suffixed(NameOf(files[n]), c)
          /\ \A n \in FirstOccurrences(counted) :
                files[n] \in DOMAIN fs /\ fs[files[n]] = fs_at_start[files[n]]
          /\ \A p \in DOMAIN fs \cap DOMAIN fs_at_start : fs[p] = fs_at_start[p]
          /\ Cardinality(DOMAIN fs) = Cardinality(DOMAIN fs_at_start)

(***************************************************************************)
(* C6, as claimed: when find_duplicates has returned, its duplicate count  *)
(* is the number of image files it could fingerprint less the number of    *)
(* their distinct contents; with move enabled that many files have been    *)
(* moved under <folder>/duplicates/<parent dir name>/, the first file of   *)
(* each content is where it was, and no file has been overwritten.         *)
(***************************************************************************)
C6_EveryImageCounted ==
    pc = "returned" => DuplicateCheck(ScanImages \ unreadable, 0)

(***************************************************************************)
(* C6, amended: the files counted are the image files that could be        *)
(* fingerprinted and whose path has no component named "duplicates"; the   *)
(* duplicate count is their number less the number of their distinct       *)
(* contents; with move enabled that many files, less those whose move      *)
(* raised an error, have been moved under <folder>/duplicates/<parent dir  *)
(* name>/, under their name or a suffixed one; the first file of each      *)
(* content is where it was, and no move has overwritten a file.            *)
(***************************************************************************)
C6_ImagesOutsideDuplicatesCounted ==
    /\ pc = "returned" =>
          DuplicateCheck({n \in ScanImages : "duplicates" \notin Range(files[n])}
                            \ unreadable,
                         MoveFailures)
    /\ lastOp.kind = "move" => ~lastOp.existed

\* three identical images, one of them in a subdirectory, have been checked
\* with move enabled: 2 duplicates, both moved, the second under a suffixed
\* name
C6_Witness ==
    /\ pc = "returned"
    /\ move_to_duplicates
    /\ faults = 0
    /\ Cardinality(ScanImages) = 3
    /\ duplicate_count = 2
    /\ moved_count = 2
    /\ UnderDuplicates(fs) =
          { folder_duplicates_path \o <<"photos", "a.jpg">>,
            folder_duplicates_path \o <<"photos", "a_1.jpg">> }

(***************************************************************************)
(* The capture date, as C9 reads it.                                       *)
(***************************************************************************)
Parses(field) ==
    field \in DOMAIN exif_tags /\ strptime(exif_tags[field]) # NoDate

\* the date of the first field of an order that is present and parses; the
\* modification time when there is none, and the current time when that
\* cannot be read
DateByPriority(order) ==
    IF \E n \in 1..Len(order) : Parses(order[n])
    THEN LET first == CHOOSE n \in 1..Len(order) :
                         Parses(order[n]) /\ \A m \in 1..(n - 1) : ~Parses(order[m])
         IN  strptime(exif_tags[order[first]])
    ELSE IF mod_time # NoDate THEN mod_time ELSE Now

(***************************************************************************)
(* C9, as claimed: the date of a file is that of the first field, in the   *)
(* order DateTimeOriginal, DateTimeDigitized, Image DateTime, that is      *)
(* present and parses; malformed fields are passed over; the modification  *)
(* time is used when no field qualifies and the current time when that is  *)
(* unavailable, so there is always a date.                                 *)
(***************************************************************************)
C9_DigitizedBeforeGeneric ==
    pc = "dated" =>
        /\ date_obj # NoDate
        /\ date_obj = DateByPriority(<<"EXIF DateTimeOriginal",
                                       "EXIF DateTimeDigitized",
                                       "Image DateTime">>)

(***************************************************************************)
(* C9, amended: the same with the order DateTimeOriginal, Image DateTime,  *)
(* DateTimeDigitized.                                                      *)
(***************************************************************************)
C9_GenericBeforeDigitized ==
    pc = "dated" =>
        /\ date_obj # NoDate
        /\ date_obj = DateByPriority(<<"EXIF DateTimeOriginal",
                                       "Image DateTime",
                                       "EXIF DateTimeDigitized">>)

\* the original time is malformed, the generic and the digitized time parse
\* to different months, and the date found is the generic one
C9_Witness ==
    /\ pc = "dated"
    /\ "EXIF DateTimeOriginal" \in DOMAIN exif_tags
    /\ ~Parses("EXIF DateTimeOriginal")
    /\ Parses("Image DateTime")
    /\ Parses("EXIF DateTimeDigitized")
    /\ strptime(exif_tags["Image DateTime"]) #
          strptime(exif_tags["EXIF DateTimeDigitized"])
    /\ date_obj = strptime(exif_tags["Image DateTime"])


(***************************************************************************)
(* The frame of an organize pass, as C11 reads it.                         *)
(***************************************************************************)
InDestination(path) ==
    path = destination_path \/ IsUnder(path, destination_path)

\* a step leaves every file outside the destination as it is: none is
\* removed, renamed, moved or rewritten, and none appears
FilesOutsideKept ==
    \A p \in DOMAIN fs \cup DOMAIN fs' :
        ~InDestination(p) =>
            /\ p \in DOMAIN fs
            /\ p \in DOMAIN fs'
            /\ fs'[p] = fs[p]

\* a step leaves every file of the source folder that is not in the
\* destination as it is
SourceFilesKept ==
    \A p \in DOMAIN fs :
        (IsUnder(p, source_path) /\ ~InDestination(p)) =>
            p \in DOMAIN fs' /\ fs'[p] = fs[p]

=============================================================================
